---------------------------- MODULE Spec2Model ----------------------------
(***************************************************************************)
(* State-machine model of backend/server.py (Hair Ecommerce API).          *)
(*                                                                         *)
(* The document store is four collections (users, products, carts,         *)
(* orders), each a sequence in insertion order: find_one returns the first *)
(* matching document and update_one rewrites the first matching document.  *)
(* Every handler is an async coroutine; it can be suspended at each        *)
(* `await db...` and nowhere else, so one action of the model is one       *)
(* database operation together with the synchronous code around it.        *)
(* A request is a slot of reqs; slots are taken in increasing order.       *)
(***************************************************************************)
EXTENDS Integers, Sequences, FiniteSets, TLC

VARIABLES users, products, carts, orders, now, tokens, reqs

vars == <<users, products, carts, orders, now, tokens, reqs>>

-----------------------------------------------------------------------------
(* Bounds of the model.                                                    *)

\* number of requests (slots of reqs) one behaviour issues
MaxReq == 3

\* the clock is followed for this many ticks from the start, and from this
\* many ticks before one token lifetime has passed to this many after it
MaxSlackTicks == 2

\* datetime.utcnow() is finer than a second: the clock counts ticks, this
\* many to the second
TicksPerSecond == 2

-----------------------------------------------------------------------------
(* Program constants.                                                      *)

ACCESS_TOKEN_EXPIRE_HOURS == 24

\* timedelta(hours=...) counted in seconds
SecondsPerHour == 3600

JWT_SECRET == "your-secret-key-here"

-----------------------------------------------------------------------------
(* Values.                                                                 *)

ReqIds == 1..MaxReq

\* str(uuid.uuid4()): a value no other call produces.  The model names it
\* after the kind of document and the request that generated it; the
\* documents of a seeded store carry numbers below 1.
Uuid(kind, n) == <<kind, n>>

NoId == <<"none", 0>>

Alice == Uuid("user", 0)

Bob == Uuid("user", -1)

P1 == Uuid("product", 0)

P2 == Uuid("product", -1)

\* an identifier no product has
PGhost == Uuid("product", -9)

\* an address is a local part and a domain
Email(l, d) == [local |-> l, domain |-> d]

Emails == {Email("ann", "x.io"), Email("bob", "x.io"), Email("ann", "")}

Passwords == {"pw1", "pw2"}

\* (first_name, last_name, password) of a registration
Profiles == {<<"Ann", "Lee", "pw1">>, <<"John", "Doe", "pw2">>}

Salts == {"s1", "s2"}

Quantities == {-1, 2}

Prices == {3, 10}

NoResp == [status |-> 0]

MinOf(S) == CHOOSE i \in S : \A j \in S : i <= j

\* index of the first document of coll among the indices S, 0 when none
First(S) == IF S = {} THEN 0 ELSE MinOf(S)

-----------------------------------------------------------------------------
(* Utility functions.                                                      *)

\* bcrypt.hashpw(password, salt): the salt in clear and a digest of both
BcryptHash(password, salt) == [salt |-> salt, digest |-> <<salt, password>>]

\* hash_password: bcrypt.hashpw(password, bcrypt.gensalt()); gensalt is the
\* caller's nondeterministic choice of salt
hash_password(password, salt) == BcryptHash(password, salt)

\* verify_password: bcrypt.checkpw re-hashes under the stored salt
verify_password(password, hashed) == BcryptHash(password, hashed.salt) = hashed

\* validate_email: syntax only (deliverability is the environment's)
validate_email(email) == email.local # "" /\ email.domain # ""

\* jwt.encode turns a datetime `exp` into a NumericDate by
\* calendar.timegm(exp.utctimetuple()): whole seconds, the fraction dropped
NumericDate(ticks) == ticks \div TicksPerSecond

TokenLifetimeTicks == ACCESS_TOKEN_EXPIRE_HOURS * SecondsPerHour * TicksPerSecond

\* create_access_token(data={"sub": sub}) at time t (in ticks)
create_access_token(sub, t) ==
    [sub |-> sub, exp |-> NumericDate(t + TokenLifetimeTicks), key |-> JWT_SECRET]

\* a decoder that still accepts a token at the very second it expires
jwt_decode_ok_at_expiry(tok, t) ==
    /\ tok.key = JWT_SECRET
    /\ tok.exp * TicksPerSecond >= t

\* jwt.decode(token, JWT_SECRET, algorithms=[HS256]) at time t: the signature
\* verifies under the secret and exp (seconds) is after the current time;
\* PyJWT raises ExpiredSignatureError when exp <= now
jwt_decode_ok(tok, t) ==
    /\ tok.key = JWT_SECRET
    /\ tok.exp * TicksPerSecond > t

\* get_current_user, up to and including db.users.find_one: the response of
\* a rejected request, or status 200 and the account's identifier
get_current_user(tok, t) ==
    IF ~jwt_decode_ok(tok, t) \/ tok.sub = NoId
    THEN [status |-> 401, detail |-> "Invalid token", user |-> NoId]
    ELSE LET i == First({k \in DOMAIN users : users[k].id = tok.sub})
         IN IF i = 0
            THEN [status |-> 404, detail |-> "User not found", user |-> NoId]
            ELSE [status |-> 200, detail |-> "", user |-> users[i].id]

\* UserResponse(**user): the account without its password hash
UserResponse(u) ==
    [id |-> u.id, email |-> u.email, first_name |-> u.first_name,
     last_name |-> u.last_name, created_at |-> u.created_at, is_active |-> u.is_active]

-----------------------------------------------------------------------------
(* Requests.                                                               *)

NewReq == [op |-> "none", pc |-> "new", arg |-> <<>>, loc |-> <<>>,
           resp |-> NoResp, before |-> {}]

Done(r) == reqs[r].pc = "done"

DoneSet == {r \in ReqIds : Done(r)}

\* slot r is the next one to take
Fresh(r) ==
    /\ reqs[r].pc = "new"
    /\ \A q \in ReqIds : q < r => reqs[q].pc # "new"

\* no request is suspended at an await
Quiet == \A r \in ReqIds : reqs[r].pc \in {"new", "done"}

Finish(r, resp) == [reqs[r] EXCEPT !.pc = "done", !.resp = resp]

-----------------------------------------------------------------------------
(* Auth routes.                                                            *)

\* a lookup that only sees deactivated accounts
FindInactiveUserByEmail(email) ==
    First({k \in DOMAIN users : users[k].email = email /\ ~users[k].is_active})

\* db.users.find_one({"email": email}): index of the first such account, or 0
FindUserByEmail(email) == First({k \in DOMAIN users : users[k].email = email})

\* a failed login that tells an unknown address from a wrong password
LoginFailureTelling(known) ==
    IF known THEN [status |-> 401, detail |-> "Invalid password"]
    ELSE [status |-> 401, detail |-> "Unknown email"]

\* register, lines 148-158: validate_email, then db.users.find_one by email
RegisterCheck(r, email, profile) ==
    /\ Fresh(r)
    /\ LET st == [NewReq EXCEPT !.op = "register",
                                !.arg = [email |-> email, profile |-> profile],
                                !.before = DoneSet]
           i == FindUserByEmail(email)
       IN reqs' = [reqs EXCEPT ![r] =
            IF ~validate_email(email)
            THEN [st EXCEPT !.pc = "done",
                            !.resp = [status |-> 400, detail |-> "Invalid email format"]]
            ELSE IF i # 0
            THEN [st EXCEPT !.pc = "done",
                            !.resp = [status |-> 400, detail |-> "Email already registered"]]
            ELSE [st EXCEPT !.pc = "reg_insert"]]
    /\ UNCHANGED <<users, products, carts, orders, now, tokens>>

\* an insert that the store refuses when an account has the address
RegisterInsertUnique(r, salt) ==
    /\ reqs[r].pc = "reg_insert"
    /\ LET a == reqs[r].arg
           user_obj == [id |-> Uuid("user", r), email |-> a.email,
                        first_name |-> a.profile[1], last_name |-> a.profile[2],
                        password_hash |-> hash_password(a.profile[3], salt),
                        created_at |-> now, is_active |-> TRUE]
       IN IF FindUserByEmail(a.email) # 0
          THEN /\ users' = users
               /\ reqs' = [reqs EXCEPT ![r] =
                     Finish(r, [status |-> 400, detail |-> "Email already registered"])]
          ELSE /\ users' = Append(users, user_obj)
               /\ reqs' = [reqs EXCEPT ![r] =
                     Finish(r, [status |-> 200, user |-> UserResponse(user_obj)])]
    /\ UNCHANGED <<products, carts, orders, now, tokens>>

\* register, lines 160-166: hash the password, db.users.insert_one
RegisterInsert(r, salt) ==
    /\ reqs[r].pc = "reg_insert"
    /\ LET a == reqs[r].arg
           user_obj == [id |-> Uuid("user", r), email |-> a.email,
                        first_name |-> a.profile[1], last_name |-> a.profile[2],
                        password_hash |-> hash_password(a.profile[3], salt),
                        created_at |-> now, is_active |-> TRUE]
       IN /\ users' = Append(users, user_obj)
          /\ reqs' = [reqs EXCEPT ![r] =
                Finish(r, [status |-> 200, user |-> UserResponse(user_obj)])]
    /\ UNCHANGED <<products, carts, orders, now, tokens>>

\* login, lines 171-172: one raise for both failures; `known` tells whether
\* an account has the address
LoginFailure(known) == [status |-> 401, detail |-> "Invalid email or password"]

\* login, lines 169-175: one find_one, then verify and issue
Login(r, email, password) ==
    /\ Fresh(r)
    /\ LET st == [NewReq EXCEPT !.op = "login",
                                !.arg = [email |-> email, password |-> password],
                                !.before = DoneSet]
           i == FindUserByEmail(email)
           bad == IF i = 0 THEN TRUE
                  ELSE ~verify_password(password, users[i].password_hash)
           tok == create_access_token(users[i].id, now)
       IN IF bad
          THEN /\ reqs' = [reqs EXCEPT ![r] =
                    [st EXCEPT !.pc = "done", !.resp = LoginFailure(i # 0),
                               !.loc = [known |-> i # 0]]]
               /\ tokens' = tokens
          ELSE /\ reqs' = [reqs EXCEPT ![r] =
                    [st EXCEPT !.pc = "done",
                               !.loc = [known |-> TRUE, at |-> now],
                               !.resp = [status |-> 200, access_token |-> tok,
                                         token_type |-> "bearer",
                                         user |-> UserResponse(users[i])]]]
               /\ tokens' = tokens \cup {tok}
    /\ UNCHANGED <<users, products, carts, orders, now>>

\* get_current_user_info (GET /auth/me), lines 177-179
Me(r, tok) ==
    /\ Fresh(r)
    /\ LET st == [NewReq EXCEPT !.op = "me", !.arg = [tok |-> tok],
                                !.before = DoneSet]
           au == get_current_user(tok, now)
       IN reqs' = [reqs EXCEPT ![r] =
            [st EXCEPT !.pc = "done", !.loc = [at |-> now],
                       !.resp = [status |-> au.status, detail |-> au.detail,
                                 user |-> au.user]]]
    /\ UNCHANGED <<users, products, carts, orders, now, tokens>>

-----------------------------------------------------------------------------
(* Cart routes.                                                            *)

\* CartItem
CartItem(pid, q, price) == [product_id |-> pid, quantity |-> q, price |-> price]

\* sum(item['quantity'] * item['price'] for item in items)
RECURSIVE SumItems(_)
SumItems(items) ==
    IF items = <<>> THEN 0
    ELSE Head(items).quantity * Head(items).price + SumItems(Tail(items))

\* Cart(user_id=uid): an empty cart with a fresh identifier
NewCart(r, uid) ==
    [id |-> Uuid("cart", r), user_id |-> uid, items |-> <<>>, total_amount |-> 0,
     created_at |-> now, updated_at |-> now]

\* db.carts.find_one({"user_id": uid}): index of the first such cart, or 0
FindCart(uid) == First({k \in DOMAIN carts : carts[k].user_id = uid})

\* db.products.find_one({"id": pid, "is_active": True})
FindProduct(pid) ==
    First({k \in DOMAIN products : products[k].id = pid /\ products[k].is_active})

\* an update that writes the items and leaves the stored total
UpdateCartItemsOnly(uid, items, total) ==
    LET i == First({k \in DOMAIN carts : carts[k].user_id = uid})
    IN IF i = 0 THEN carts
       ELSE [carts EXCEPT ![i].items = items, ![i].updated_at = now]

\* db.carts.update_one({"user_id": uid}, {"$set": {items, total_amount,
\* updated_at}}): the first matching cart is rewritten, none when none matches
UpdateCart(uid, items, total) ==
    LET i == FindCart(uid)
    IN IF i = 0 THEN carts
       ELSE [carts EXCEPT ![i].items = items, ![i].total_amount = total,
                          ![i].updated_at = now]

\* the authentication dependency of a protected route, run as the request
\* arrives: the request goes on to `next` or ends with the gate's error
Gate(r, op, tok, arg, next) ==
    LET au == get_current_user(tok, now)
        st == [NewReq EXCEPT !.op = op, !.arg = arg, !.before = DoneSet,
                             !.loc = [user |-> au.user]]
    IN reqs' = [reqs EXCEPT ![r] =
            IF au.status = 200
            THEN [st EXCEPT !.pc = next]
            ELSE [st EXCEPT !.pc = "done",
                            !.resp = [status |-> au.status, detail |-> au.detail]]]

Arrive(r, op, tok, arg, next) ==
    /\ Fresh(r)
    /\ Gate(r, op, tok, arg, next)
    /\ UNCHANGED <<users, products, carts, orders, now, tokens>>

\* get_cart, line 206
GetCart(r, tok) == Arrive(r, "get_cart", tok, <<>>, "gc_find")

\* get_cart, lines 207-208 and 213: find_one
GetCartFind(r) ==
    /\ reqs[r].pc = "gc_find"
    /\ LET i == FindCart(reqs[r].loc.user)
       IN reqs' = [reqs EXCEPT ![r] =
            IF i = 0 THEN [reqs[r] EXCEPT !.pc = "gc_insert"]
            ELSE Finish(r, [status |-> 200, cart |-> carts[i]])]
    /\ UNCHANGED <<users, products, carts, orders, now, tokens>>

\* get_cart, lines 209-212: insert_one of an empty cart
GetCartInsert(r) ==
    /\ reqs[r].pc = "gc_insert"
    /\ LET cart_obj == NewCart(r, reqs[r].loc.user)
       IN /\ carts' = Append(carts, cart_obj)
          /\ reqs' = [reqs EXCEPT ![r] = Finish(r, [status |-> 200, cart |-> cart_obj])]
    /\ UNCHANGED <<users, products, orders, now, tokens>>

\* add_to_cart, line 216
AddToCart(r, tok, pid, q) ==
    Arrive(r, "add_to_cart", tok, [product_id |-> pid, quantity |-> q], "add_product")

\* an add that creates the account's cart before it looks for the product
AddFindProductCartFirst(r) ==
    /\ reqs[r].pc = "add_product"
    /\ LET i == FindProduct(reqs[r].arg.product_id)
           u == reqs[r].loc.user
       IN /\ reqs' = [reqs EXCEPT ![r] =
                IF i = 0 THEN Finish(r, [status |-> 404, detail |-> "Product not found"])
                ELSE [reqs[r] EXCEPT !.pc = "add_cart",
                                     !.loc = [user |-> u, price |-> products[i].price]]]
          /\ carts' = IF FindCart(u) = 0 THEN Append(carts, NewCart(r, u)) ELSE carts
    /\ UNCHANGED <<users, products, orders, now, tokens>>

\* add_to_cart, lines 218-220: find the active product
AddFindProduct(r) ==
    /\ reqs[r].pc = "add_product"
    /\ LET i == FindProduct(reqs[r].arg.product_id)
       IN reqs' = [reqs EXCEPT ![r] =
            IF i = 0 THEN Finish(r, [status |-> 404, detail |-> "Product not found"])
            ELSE [reqs[r] EXCEPT !.pc = "add_cart",
                                 !.loc = [user |-> reqs[r].loc.user,
                                          price |-> products[i].price]]]
    /\ UNCHANGED <<users, products, carts, orders, now, tokens>>

\* add_to_cart, lines 223-226: find the cart, or build an empty one
AddFindCart(r) ==
    /\ reqs[r].pc = "add_cart"
    /\ LET l == reqs[r].loc
           i == FindCart(l.user)
       IN reqs' = [reqs EXCEPT ![r] =
            IF i = 0
            THEN [reqs[r] EXCEPT !.pc = "add_insert",
                     !.loc = [user |-> l.user, price |-> l.price, found |-> FALSE,
                              cart |-> NewCart(r, l.user)]]
            ELSE [reqs[r] EXCEPT !.pc = "add_update",
                     !.loc = [user |-> l.user, price |-> l.price, found |-> TRUE,
                              cart |-> carts[i]]]]
    /\ UNCHANGED <<users, products, carts, orders, now, tokens>>

\* add_to_cart, line 227: insert_one of the empty cart
AddInsertCart(r) ==
    /\ reqs[r].pc = "add_insert"
    /\ carts' = Append(carts, reqs[r].loc.cart)
    /\ reqs' = [reqs EXCEPT ![r].pc = "add_update"]
    /\ UNCHANGED <<users, products, orders, now, tokens>>

\* a merge that appends a line item also when the product has one
MergeItemAlwaysAppend(items, pid, q, price) == Append(items, CartItem(pid, q, price))

\* a merge that takes the current catalog price for a line item it updates
MergeItemRefreshPrice(items, pid, q, price) ==
    LET i == First({k \in DOMAIN items : items[k].product_id = pid})
    IN IF i # 0
       THEN [items EXCEPT ![i].quantity = items[i].quantity + q, ![i].price = price]
       ELSE Append(items, CartItem(pid, q, price))

\* add_to_cart, lines 230-244: the first line item of the product gets the
\* quantity added (its price kept), else a new line item is appended
MergeItem(items, pid, q, price) ==
    LET i == First({k \in DOMAIN items : items[k].product_id = pid})
    IN IF i # 0
       THEN [items EXCEPT ![i].quantity = items[i].quantity + q]
       ELSE Append(items, CartItem(pid, q, price))

\* an add that merges into the cart as stored at the time of the write
AddUpdateStored(r) ==
    /\ reqs[r].pc = "add_update"
    /\ LET l == reqs[r].loc
           a == reqs[r].arg
           cart_items == MergeItem(carts[FindCart(l.user)].items, a.product_id,
                                   a.quantity, l.price)
           total == SumItems(cart_items)
       IN /\ carts' = UpdateCart(l.user, cart_items, total)
          /\ reqs' = [reqs EXCEPT ![r] =
                Finish(r, [status |-> 200, message |-> "Item added to cart",
                           total_items |-> Len(cart_items)])]
    /\ UNCHANGED <<users, products, orders, now, tokens>>

\* add_to_cart, lines 229-254: merge, total, update_one
AddUpdate(r) ==
    /\ reqs[r].pc = "add_update"
    /\ LET l == reqs[r].loc
           a == reqs[r].arg
           cart_items == MergeItem(l.cart.items, a.product_id, a.quantity, l.price)
           total == SumItems(cart_items)
       IN /\ carts' = UpdateCart(l.user, cart_items, total)
          /\ reqs' = [reqs EXCEPT ![r] =
                Finish(r, [status |-> 200, message |-> "Item added to cart",
                           total_items |-> Len(cart_items)])]
    /\ UNCHANGED <<users, products, orders, now, tokens>>

\* remove_from_cart, line 257
RemoveFromCart(r, tok, pid) ==
    Arrive(r, "remove_from_cart", tok, [product_id |-> pid], "rm_find")

\* remove_from_cart, lines 258-260: find the cart
RemoveFind(r) ==
    /\ reqs[r].pc = "rm_find"
    /\ LET l == reqs[r].loc
           i == FindCart(l.user)
       IN reqs' = [reqs EXCEPT ![r] =
            IF i = 0 THEN Finish(r, [status |-> 404, detail |-> "Cart not found"])
            ELSE [reqs[r] EXCEPT !.pc = "rm_update",
                                 !.loc = [user |-> l.user, cart |-> carts[i]]]]
    /\ UNCHANGED <<users, products, carts, orders, now, tokens>>

\* a filter with the comparison turned round: only the product is kept
RECURSIVE OnlyProduct(_, _)
OnlyProduct(items, pid) ==
    IF items = <<>> THEN <<>>
    ELSE IF Head(items).product_id = pid
         THEN <<Head(items)>> \o OnlyProduct(Tail(items), pid)
         ELSE OnlyProduct(Tail(items), pid)

\* [item for item in items if item['product_id'] != pid]
RECURSIVE WithoutProduct(_, _)
WithoutProduct(items, pid) ==
    IF items = <<>> THEN <<>>
    ELSE IF Head(items).product_id # pid
         THEN <<Head(items)>> \o WithoutProduct(Tail(items), pid)
         ELSE WithoutProduct(Tail(items), pid)

\* remove_from_cart, lines 262-270: filter, total, update_one
RemoveUpdate(r) ==
    /\ reqs[r].pc = "rm_update"
    /\ LET l == reqs[r].loc
           cart_items == WithoutProduct(l.cart.items, reqs[r].arg.product_id)
           total == SumItems(cart_items)
       IN /\ carts' = UpdateCart(l.user, cart_items, total)
          /\ reqs' = [reqs EXCEPT ![r] =
                Finish(r, [status |-> 200, message |-> "Item removed from cart"])]
    /\ UNCHANGED <<users, products, orders, now, tokens>>

-----------------------------------------------------------------------------
(* Order routes.                                                           *)

\* an order total priced from the catalog instead of the supplied prices
RECURSIVE order_total_catalog(_)
order_total_catalog(items) ==
    IF items = <<>> THEN 0
    ELSE LET i == First({k \in DOMAIN products : products[k].id = Head(items).product_id})
         IN Head(items).quantity * (IF i = 0 THEN 0 ELSE products[i].price)
            + order_total_catalog(Tail(items))

\* create_order, line 275: the total of the supplied items
order_total(items) == SumItems(items)

\* create_order, line 274
CreateOrder(r, tok, items) ==
    Arrive(r, "create_order", tok, [items |-> items], "ord_insert")

\* create_order, lines 275-282: total of the supplied items, insert_one
OrderInsert(r) ==
    /\ reqs[r].pc = "ord_insert"
    /\ LET l == reqs[r].loc
           order_obj == [id |-> Uuid("order", r), user_id |-> l.user,
                         items |-> reqs[r].arg.items,
                         total_amount |-> order_total(reqs[r].arg.items),
                         status |-> "pending", created_at |-> now]
       IN /\ orders' = Append(orders, order_obj)
          /\ reqs' = [reqs EXCEPT ![r].pc = "ord_clear",
                                  ![r].loc = [user |-> l.user, order |-> order_obj]]
    /\ UNCHANGED <<users, products, carts, now, tokens>>

\* create_order, lines 284-290: the cart is emptied, the order returned
OrderClearCart(r) ==
    /\ reqs[r].pc = "ord_clear"
    /\ carts' = UpdateCart(reqs[r].loc.user, <<>>, 0)
    /\ reqs' = [reqs EXCEPT ![r] =
            Finish(r, [status |-> 200, order |-> reqs[r].loc.order])]
    /\ UNCHANGED <<users, products, orders, now, tokens>>

\* get_user_orders, line 293
GetUserOrders(r, tok) == Arrive(r, "get_user_orders", tok, <<>>, "lo_find")

\* get_user_orders, lines 294-295: find({"user_id": uid})
GetUserOrdersFind(r) ==
    /\ reqs[r].pc = "lo_find"
    /\ reqs' = [reqs EXCEPT ![r] =
            Finish(r, [status |-> 200,
                       orders |-> SelectSeq(orders,
                                    LAMBDA o : o.user_id = reqs[r].loc.user)])]
    /\ UNCHANGED <<users, products, carts, orders, now, tokens>>

\* get_order, line 298
GetOrder(r, tok, oid) == Arrive(r, "get_order", tok, [order_id |-> oid], "go_find")

\* the order lookup without the owner in its filter
FindOrderAnyOwner(oid, uid) == First({k \in DOMAIN orders : orders[k].id = oid})

\* db.orders.find_one({"id": oid, "user_id": uid})
FindOrder(oid, uid) ==
    First({k \in DOMAIN orders : orders[k].id = oid /\ orders[k].user_id = uid})

\* get_order, lines 299-302
GetOrderFind(r) ==
    /\ reqs[r].pc = "go_find"
    /\ LET i == FindOrder(reqs[r].arg.order_id, reqs[r].loc.user)
       IN reqs' = [reqs EXCEPT ![r] =
            IF i = 0 THEN Finish(r, [status |-> 404, detail |-> "Order not found"])
            ELSE Finish(r, [status |-> 200, order |-> orders[i]])]
    /\ UNCHANGED <<users, products, carts, orders, now, tokens>>

-----------------------------------------------------------------------------
(* The clock (datetime.utcnow()).                                          *)

SlackTicks == MaxSlackTicks

JumpTicks == TokenLifetimeTicks - SlackTicks

\* one tick passes
Tick ==
    /\ \/ now < SlackTicks
       \/ now >= JumpTicks /\ now < TokenLifetimeTicks + SlackTicks
    /\ now' = now + 1
    /\ UNCHANGED <<users, products, carts, orders, tokens, reqs>>

\* almost one token lifetime passes
Jump ==
    /\ now < JumpTicks
    /\ now' = now + JumpTicks
    /\ UNCHANGED <<users, products, carts, orders, tokens, reqs>>

-----------------------------------------------------------------------------
(* Stores and specifications.                                              *)

SeedUser(id, email, profile, salt) ==
    [id |-> id, email |-> email, first_name |-> profile[1], last_name |-> profile[2],
     password_hash |-> hash_password(profile[3], salt), created_at |-> 0,
     is_active |-> TRUE]

\* two registered accounts
SeedUsers ==
    << SeedUser(Alice, Email("ann", "x.io"), <<"Ann", "Lee", "pw1">>, "s1"),
       SeedUser(Bob, Email("bob", "x.io"), <<"John", "Doe", "pw2">>, "s2") >>

\* what a client can present besides the tokens login issued: a token signed
\* with another key, and a token without a subject
Forged(tok) == [tok EXCEPT !.key = "other-key"]

Subless(tok) == [tok EXCEPT !.sub = NoId]

Presentable == tokens \cup {Forged(t) : t \in tokens} \cup {Subless(t) : t \in tokens}

\* the store as the process finds it at start-up: empty
InitAuth ==
    /\ users = <<>>
    /\ products = <<>>
    /\ carts = <<>>
    /\ orders = <<>>
    /\ now = 0
    /\ tokens = {}
    /\ reqs = [r \in ReqIds |-> NewReq]

NextAuth ==
    \/ \E r \in ReqIds, e \in Emails, p \in Profiles : RegisterCheck(r, e, p)
    \/ \E r \in ReqIds, s \in Salts : RegisterInsert(r, s)
    \/ \E r \in ReqIds, e \in Emails, p \in Passwords : Login(r, e, p)

\* registration and login, requests interleaving at their awaits
SpecAuth == InitAuth /\ [][NextAuth]_vars

InitToken ==
    /\ users = SeedUsers
    /\ products = <<>>
    /\ carts = <<>>
    /\ orders = <<>>
    /\ now = 0
    /\ tokens = {}
    /\ reqs = [r \in ReqIds |-> NewReq]

NextToken ==
    \/ \E r \in ReqIds, e \in {u.email : u \in {SeedUsers[i] : i \in DOMAIN SeedUsers}} :
            Login(r, e, IF e.local = "ann" THEN "pw1" ELSE "pw2")
    \/ \E r \in ReqIds, t \in Presentable : Me(r, t)
    \/ Tick
    \/ Jump

\* login and token validation against a running clock
SpecToken == InitToken /\ [][NextToken]_vars

-----------------------------------------------------------------------------
(* The shop: a seeded store, the cart and order routes.                    *)

SeedProduct(id, name, price) ==
    [id |-> id, name |-> name, price |-> price, stock_quantity |-> 50,
     is_active |-> TRUE, created_at |-> 0]

SeedProducts == << SeedProduct(P1, "wig", 10), SeedProduct(P2, "bundle", 3) >>

TokenOf(uid) == create_access_token(uid, 0)

\* two registered and logged-in accounts, two active products, no cart
InitShop ==
    /\ users = SeedUsers
    /\ products = SeedProducts
    /\ carts = <<>>
    /\ orders = <<>>
    /\ now = 0
    /\ tokens = {TokenOf(Alice), TokenOf(Bob)}
    /\ reqs = [r \in ReqIds |-> NewReq]

\* the catalog price of a product is changed (by whoever maintains the
\* catalog; no route of the server does it)
CatalogPriceChange(pid, price) ==
    /\ \E i \in DOMAIN products :
          /\ products[i].id = pid
          /\ products[i].price # price
          /\ products' = [products EXCEPT ![i].price = price]
    /\ UNCHANGED <<users, carts, orders, now, tokens, reqs>>

\* line items a client may post as an order: any products, quantities and
\* prices, whatever the cart and the catalog hold
OrderLists ==
    { <<CartItem(P1, 2, 10)>>,
      <<CartItem(P2, 1, 7), CartItem(P2, 2, 7)>> }

CartSteps ==
    \/ \E r \in ReqIds : GetCartFind(r)
    \/ \E r \in ReqIds : GetCartInsert(r)
    \/ \E r \in ReqIds : AddFindProduct(r)
    \/ \E r \in ReqIds : AddFindCart(r)
    \/ \E r \in ReqIds : AddInsertCart(r)
    \/ \E r \in ReqIds : AddUpdate(r)
    \/ \E r \in ReqIds : RemoveFind(r)
    \/ \E r \in ReqIds : RemoveUpdate(r)
    \/ \E r \in ReqIds : OrderInsert(r)
    \/ \E r \in ReqIds : OrderClearCart(r)

CartArrivals(Toks, Pids, Qs, Lists) ==
    \/ \E r \in ReqIds, t \in Toks : GetCart(r, t)
    \/ \E r \in ReqIds, t \in Toks, p \in Pids, q \in Qs : AddToCart(r, t, p, q)
    \/ \E r \in ReqIds, t \in Toks, p \in Pids : RemoveFromCart(r, t, p)
    \/ \E r \in ReqIds, t \in Toks, l \in Lists : CreateOrder(r, t, l)

NextCart ==
    \/ CartArrivals({TokenOf(Alice)}, {P1, P2}, {1}, {<<CartItem(P1, 2, 10)>>})
    \/ CartSteps

\* the cart routes and order placement, requests interleaving at their awaits
SpecCart == InitShop /\ [][NextCart]_vars

NextSerial ==
    \/ Quiet /\ CartArrivals(tokens, {P1, P2}, Quantities, OrderLists)
    \/ CartSteps
    \/ Quiet /\ \E p \in {P1}, c \in Prices : CatalogPriceChange(p, c)

\* the same routes, each request arriving after the one before has ended
SpecSerial == InitShop /\ [][NextSerial]_vars

\* the identifiers a client may ask for: those of the stored orders, and one
\* that no order has
OrderIds == {orders[i].id : i \in DOMAIN orders} \cup {Uuid("order", 0)}

NextOrders ==
    \/ \E r \in ReqIds, t \in tokens : CreateOrder(r, t, <<CartItem(P1, 2, 10)>>)
    \/ \E r \in ReqIds : OrderInsert(r)
    \/ \E r \in ReqIds : OrderClearCart(r)
    \/ \E r \in ReqIds, t \in tokens : GetUserOrders(r, t)
    \/ \E r \in ReqIds : GetUserOrdersFind(r)
    \/ \E r \in ReqIds, t \in tokens, o \in OrderIds : GetOrder(r, t, o)
    \/ \E r \in ReqIds : GetOrderFind(r)

\* order placement and the order queries, interleaving
SpecOrders == InitShop /\ [][NextOrders]_vars

-----------------------------------------------------------------------------
(* Failing requests: a store with an inactive product, every route that    *)
(* can end in an error.                                                    *)

\* the persisted state: the four collections
Store == [users |-> users, products |-> products, carts |-> carts, orders |-> orders]

P3 == Uuid("product", -2)

\* a product taken out of the catalog (is_active set to False in the store;
\* no route of the server does it)
InactiveProduct == [SeedProduct(P3, "closure", 5) EXCEPT !.is_active = FALSE]

InitFail ==
    /\ users = SeedUsers
    /\ products = Append(SeedProducts, InactiveProduct)
    /\ carts = <<>>
    /\ orders = <<>>
    /\ now = 0
    /\ tokens = {TokenOf(Alice)}
    /\ reqs = [r \in ReqIds |-> NewReq]

\* a token of an account that is no longer in the store
Orphan(tok) == [tok EXCEPT !.sub = Uuid("user", -7)]

BadTokens == {Forged(TokenOf(Alice)), Orphan(TokenOf(Alice))}

\* the arrival of a request of a protected route, the request keeping (with
\* its arguments) the store as it was when it arrived
ArriveSeen(r, op, tok, arg, next) == Arrive(r, op, tok, arg @@ [seen |-> Store], next)

NextFail ==
    \/ /\ Quiet
       /\ \E r \in ReqIds, e \in {Email("ann", "x.io"), Email("ann", ""), Email("cat", "x.io")} :
             RegisterCheck(r, e, <<"Cat", "Roe", "pw1">>)
    \/ \E r \in ReqIds : RegisterInsert(r, "s1")
    \/ /\ Quiet
       /\ \E r \in ReqIds, p \in {P1, P3, PGhost} :
             ArriveSeen(r, "add_to_cart", TokenOf(Alice),
                        [product_id |-> p, quantity |-> 2], "add_product")
    \/ /\ Quiet
       /\ \E r \in ReqIds, t \in BadTokens :
             ArriveSeen(r, "add_to_cart", t,
                        [product_id |-> P1, quantity |-> 2], "add_product")
    \/ /\ Quiet
       /\ \E r \in ReqIds, t \in {TokenOf(Alice)} \cup BadTokens :
             ArriveSeen(r, "remove_from_cart", t, [product_id |-> P1], "rm_find")
    \/ /\ Quiet
       /\ \E r \in ReqIds, t \in BadTokens :
             ArriveSeen(r, "create_order", t, [items |-> <<CartItem(P1, 2, 10)>>],
                        "ord_insert")
    \/ \E r \in ReqIds : AddFindProduct(r)
    \/ \E r \in ReqIds : AddFindCart(r)
    \/ \E r \in ReqIds : AddInsertCart(r)
    \/ \E r \in ReqIds : AddUpdate(r)
    \/ \E r \in ReqIds : RemoveFind(r)
    \/ \E r \in ReqIds : RemoveUpdate(r)

\* registration and the cart routes, each request arriving after the one
\* before has ended, with the inputs that make them fail
SpecFail == InitFail /\ [][NextFail]_vars

-----------------------------------------------------------------------------
(* Properties.                                                             *)

Arrived(r) == reqs[r].pc # "new"

IsDone(r, op) == Done(r) /\ reqs[r].op = op

\* q had ended when r arrived
Before(q, r) == q \in reqs[r].before

EmailTaken == [status |-> 400, detail |-> "Email already registered"]

AccountsWith(email) == {k \in DOMAIN users : users[k].email = email}

\* r1 is the first registration of its address: every other registration of
\* the address arrived after r1 had ended
FirstRegistration(r1) ==
    \A q \in ReqIds :
        (q # r1 /\ Arrived(q) /\ reqs[q].op = "register"
              /\ reqs[q].arg.email = reqs[r1].arg.email) => Before(r1, q)

\* r1 and r2 register the same valid address, r2 after r1 has ended
RegisteredTwice(r1, r2) ==
    /\ IsDone(r1, "register")
    /\ IsDone(r2, "register")
    /\ Before(r1, r2)
    /\ reqs[r1].arg.email = reqs[r2].arg.email
    /\ validate_email(reqs[r1].arg.email)
    /\ FirstRegistration(r1)

\* C1: of two registrations of one valid address, the second arriving after
\* the first has ended, the first succeeds and stores one account, and the
\* second fails with 400 "Email already registered" and stores none,
\* whatever names and passwords the two carry.
C1_RegisterTwice ==
    \A r1, r2 \in ReqIds :
        RegisteredTwice(r1, r2) =>
            /\ reqs[r1].resp.status = 200
            /\ reqs[r1].resp.user.email = reqs[r1].arg.email
            /\ reqs[r2].resp = EmailTaken
            /\ {users[k].id : k \in AccountsWith(reqs[r1].arg.email)}
                  = {Uuid("user", r1)}
            /\ Cardinality(AccountsWith(reqs[r1].arg.email)) = 1

\* two such registrations with different names and passwords
C1_Witness ==
    \E r1, r2 \in ReqIds :
        /\ RegisteredTwice(r1, r2)
        /\ reqs[r1].arg.profile # reqs[r2].arg.profile

FailedLogin(r) == IsDone(r, "login") /\ reqs[r].resp.status # 200

SuccessfulLogins == {r \in ReqIds : IsDone(r, "login") /\ reqs[r].resp.status = 200}

SuccessfulRegistrations ==
    {r \in ReqIds : IsDone(r, "register") /\ reqs[r].resp.status = 200}

\* C3: a login with an address no account has and a login with a wrong
\* password get the same response (401, the same body); neither issues a
\* token nor changes the store: the tokens are those of the successful
\* logins and the accounts those of the successful registrations.
C3_LoginFailuresAlike ==
    /\ \A r1, r2 \in ReqIds :
          (FailedLogin(r1) /\ FailedLogin(r2)) =>
              /\ reqs[r1].resp = reqs[r2].resp
              /\ reqs[r1].resp.status = 401
              /\ DOMAIN reqs[r1].resp = {"status", "detail"}
    /\ tokens = {reqs[r].resp.access_token : r \in SuccessfulLogins}
    /\ {users[k].id : k \in DOMAIN users}
          = {reqs[r].resp.user.id : r \in SuccessfulRegistrations}
    /\ Len(users) = Cardinality(SuccessfulRegistrations)

\* a failed login for an unknown address and one for a wrong password
C3_Witness ==
    \E r1, r2 \in ReqIds :
        /\ FailedLogin(r1) /\ ~reqs[r1].loc.known
        /\ FailedLogin(r2) /\ reqs[r2].loc.known

\* m presents the token that login l issued
Presents(m, l) ==
    /\ IsDone(m, "me")
    /\ l \in SuccessfulLogins
    /\ reqs[m].arg.tok = reqs[l].resp.access_token

\* m is answered with the account that logged in with l
Accepted(m, l) ==
    /\ reqs[m].resp.status = 200
    /\ reqs[m].resp.user = reqs[l].resp.user.id

InvalidToken(m) ==
    /\ reqs[m].resp.status = 401
    /\ reqs[m].resp.detail = "Invalid token"

\* the claim as stated: a token issued at t0 is accepted at t exactly when
\* t < t0 + 24 hours
C2_AcceptedUntilLifetime ==
    \A m, l \in ReqIds :
        Presents(m, l) =>
            (Accepted(m, l) <=> reqs[m].loc.at < reqs[l].loc.at + TokenLifetimeTicks)

\* the instant t0 + 24 hours cut down to a whole second, in ticks
ExpiryOf(t0) == ((t0 + TokenLifetimeTicks) \div TicksPerSecond) * TicksPerSecond

\* C2: a token that login issued at t0 is accepted at t exactly when t is
\* before t0 + 24 hours cut down to a whole second (the expiry the token
\* carries); an accepted token resolves to the account that logged in; a
\* token that is expired, signed with another key or without a subject is
\* rejected with 401 "Invalid token", and only tokens that verify under the
\* shared secret are accepted.
C2_AcceptedUntilExpiry ==
    /\ \A m, l \in ReqIds :
          Presents(m, l) =>
              (Accepted(m, l) <=> reqs[m].loc.at < ExpiryOf(reqs[l].loc.at))
    /\ \A m \in ReqIds :
          IsDone(m, "me") =>
              /\ reqs[m].resp.status # 200 => InvalidToken(m)
              /\ reqs[m].resp.status = 200 =>
                    /\ reqs[m].arg.tok.key = JWT_SECRET
                    /\ \E l \in ReqIds : Presents(m, l)

\* a token issued on a half second, accepted half a second before its
\* expiry and rejected at it
C2_Witness ==
    \E l, m1, m2 \in ReqIds :
        /\ Presents(m1, l) /\ Accepted(m1, l)
        /\ reqs[l].loc.at % TicksPerSecond # 0
        /\ reqs[m1].loc.at + 1 = ExpiryOf(reqs[l].loc.at)
        /\ Presents(m2, l) /\ InvalidToken(m2)
        /\ reqs[m2].loc.at = ExpiryOf(reqs[l].loc.at)

\* the account a request of a protected route runs as (NoId when the gate
\* rejected it)
UserOf(r) == reqs[r].loc.user

\* r is an add_to_cart that ended in success
Added(r) == IsDone(r, "add_to_cart") /\ reqs[r].resp.status = 200

\* the requests of account u that arrived after r had ended
Later(r, u) == {q \in ReqIds : Arrived(q) /\ Before(r, q) /\ UserOf(q) = u}

\* r1 and r2 are two adds of one product by one account, r1 on an empty
\* cart, r2 after r1, and nothing but get_cart has run for the account
\* between them or since
AddedTwice(r1, r2) ==
    /\ Added(r1) /\ Added(r2)
    /\ Before(r1, r2)
    /\ UserOf(r1) = UserOf(r2)
    /\ reqs[r1].arg.product_id = reqs[r2].arg.product_id
    /\ reqs[r1].loc.cart.items = <<>>
    /\ \A q \in Later(r1, UserOf(r1)) : q # r2 => reqs[q].op = "get_cart"

\* C4: after add(acct, p, q1) on an empty cart and then add(acct, p, q2), the
\* cart has exactly one line item for p, with quantity q1 + q2 and the
\* catalog price the first add read, also when the catalog price has changed
\* since, and total_amount = (q1 + q2) * that price.
C4_AddTwiceMerges ==
    \A r1, r2 \in ReqIds :
        AddedTwice(r1, r2) =>
            LET c == carts[FindCart(UserOf(r1))]
                q == reqs[r1].arg.quantity + reqs[r2].arg.quantity
            IN /\ c.items = <<CartItem(reqs[r1].arg.product_id, q, reqs[r1].loc.price)>>
               /\ c.total_amount = q * reqs[r1].loc.price

\* two such adds with the catalog price changed between them, and changed
\* again after them
C4_Witness ==
    \E r1, r2 \in ReqIds :
        /\ AddedTwice(r1, r2)
        /\ reqs[r2].loc.price # reqs[r1].loc.price
        /\ products[FindProduct(reqs[r1].arg.product_id)].price # reqs[r2].loc.price

\* C5: every stored cart has at most one line item per product identifier.
C5_OneLinePerProduct ==
    \A k \in DOMAIN carts :
        \A i, j \in DOMAIN carts[k].items :
            carts[k].items[i].product_id = carts[k].items[j].product_id => i = j

\* a cart with a line item merged from two adds, while a third add is about
\* to write
C5_Witness ==
    \E k \in DOMAIN carts :
        /\ \E i \in DOMAIN carts[k].items : carts[k].items[i].quantity = 2
        /\ \E r \in ReqIds : reqs[r].pc = "add_update"

\* quantity * price summed over the line items, by index
TotalOf(items) ==
    LET S[n \in 0..Len(items)] ==
            IF n = 0 THEN 0 ELSE S[n - 1] + items[n].quantity * items[n].price
    IN S[Len(items)]

\* C6: every stored cart's total_amount is the sum of quantity * price over
\* its own line items (0 for an empty cart), requests interleaving.
C6_TotalIsSum ==
    \A k \in DOMAIN carts : carts[k].total_amount = TotalOf(carts[k].items)

\* a cart with two line items and a total of 13 (10 + 3) while another
\* request is under way, in a store where an order has been placed
C6_Witness ==
    \E k \in DOMAIN carts :
        /\ Len(carts[k].items) = 2
        /\ carts[k].total_amount = 13
        /\ ~Quiet
        /\ orders # <<>>

HasLine(items, pid) == \E i \in DOMAIN items : items[i].product_id = pid

\* r is a remove_from_cart that read a cart without the product and ended
\* in success, and the account has issued nothing since
RemovedAbsent(r) ==
    /\ IsDone(r, "remove_from_cart")
    /\ reqs[r].resp.status = 200
    /\ ~HasLine(reqs[r].loc.cart.items, reqs[r].arg.product_id)
    /\ Later(r, UserOf(r)) = {}

\* a request that ended before r had left the account of r a cart
HadCart(r) ==
    \E q \in reqs[r].before :
        /\ reqs[q].op \in {"get_cart", "add_to_cart"}
        /\ UserOf(q) = UserOf(r)
        /\ reqs[q].resp.status = 200

\* C7: remove(acct, p) on an existing cart succeeds, and when the cart has no
\* line item for p it leaves the cart as it was, line items in their order
\* and total_amount included; only updated_at may differ.
C7_RemoveAbsentKeepsCart ==
    \A r \in ReqIds :
        /\ (IsDone(r, "remove_from_cart") /\ HadCart(r)) =>
              reqs[r].resp = [status |-> 200, message |-> "Item removed from cart"]
        /\ RemovedAbsent(r) =>
              LET c == carts[FindCart(UserOf(r))]
              IN /\ c.items = reqs[r].loc.cart.items
                 /\ c.total_amount = reqs[r].loc.cart.total_amount
                 /\ [c EXCEPT !.updated_at = 0]
                       = [reqs[r].loc.cart EXCEPT !.updated_at = 0]

\* such a remove on a cart that holds a line item of another product
C7_Witness ==
    \E r \in ReqIds :
        /\ RemovedAbsent(r)
        /\ HadCart(r)
        /\ reqs[r].loc.cart.items # <<>>

\* r is a create_order that passed the gate and ended
Placed(r) == IsDone(r, "create_order") /\ UserOf(r) # NoId

OrdersOf(r) == {k \in DOMAIN orders : orders[k].id = Uuid("order", r)}

\* g is a get_cart of the account of r, the first request of the account
\* after r
NextGetCart(r, g) ==
    /\ IsDone(g, "get_cart")
    /\ Before(r, g)
    /\ UserOf(g) = UserOf(r)
    /\ \A q \in Later(r, UserOf(r)) : q = g \/ Before(g, q)

\* C8: create_order stores exactly one new order: owned by the account, with
\* the supplied items, a total of quantity * price summed over the supplied
\* items and status pending; a get_cart of the account that follows it
\* shows no items and total 0, with or without a cart before the order.
C8_OrderPlaced ==
    /\ \A r \in ReqIds :
          Placed(r) =>
              /\ Cardinality(OrdersOf(r)) = 1
              /\ \A k \in OrdersOf(r) :
                    /\ orders[k].user_id = UserOf(r)
                    /\ orders[k].items = reqs[r].arg.items
                    /\ orders[k].total_amount = TotalOf(reqs[r].arg.items)
                    /\ orders[k].status = "pending"
                    /\ reqs[r].resp = [status |-> 200, order |-> orders[k]]
    /\ Len(orders) = Cardinality({r \in ReqIds : reqs[r].pc \in {"ord_clear", "done"}
                                                  /\ reqs[r].op = "create_order"
                                                  /\ UserOf(r) # NoId})
    /\ \A r, g \in ReqIds :
          (Placed(r) /\ NextGetCart(r, g)) =>
              /\ reqs[g].resp.cart.items = <<>>
              /\ reqs[g].resp.cart.total_amount = 0

\* an order of 21 (1 and 2 of P2 at 7, the catalog saying 3) placed with a
\* line item of P1 in the cart, and the get_cart that follows it
C8_Witness ==
    \E a, r, g \in ReqIds :
        /\ Added(a) /\ Before(a, r) /\ UserOf(a) = UserOf(r)
        /\ reqs[a].arg.product_id = P1
        /\ Placed(r) /\ NextGetCart(r, g)
        /\ \E k \in OrdersOf(r) : orders[k].total_amount = 21

NotFound == [status |-> 404, detail |-> "Order not found"]

\* an order with the identifier g asks for exists and is another account's
OthersOrder(g) ==
    \E k \in DOMAIN orders :
        /\ orders[k].id = reqs[g].arg.order_id
        /\ orders[k].user_id # UserOf(g)

\* C9: get_order returns an order only to its owner; for another account's
\* order it answers 404 "Order not found", as it does for an identifier no
\* order has; get_user_orders returns only orders of the caller.
C9_OrderIsolation ==
    /\ \A g \in ReqIds :
          IsDone(g, "get_order") =>
              /\ reqs[g].resp.status = 200 =>
                    /\ reqs[g].resp.order.user_id = UserOf(g)
                    /\ reqs[g].resp.order.id = reqs[g].arg.order_id
              /\ reqs[g].resp.status # 200 => reqs[g].resp = NotFound
              /\ OthersOrder(g) => reqs[g].resp = NotFound
    /\ \A l \in ReqIds :
          IsDone(l, "get_user_orders") =>
              \A i \in DOMAIN reqs[l].resp.orders :
                  reqs[l].resp.orders[i].user_id = UserOf(l)

\* a get_order for another account's order and one for an identifier no
\* order has, both answered alike
C9_Witness ==
    \E g1, g2 \in ReqIds :
        /\ IsDone(g1, "get_order") /\ OthersOrder(g1)
        /\ IsDone(g2, "get_order")
        /\ \A k \in DOMAIN orders : orders[k].id # reqs[g2].arg.order_id
        /\ reqs[g1].resp = reqs[g2].resp

\* C10: there is at most one cart per account.
C10_OneCartPerAccount ==
    \A i, j \in DOMAIN carts : carts[i].user_id = carts[j].user_id => i = j


\* r ended in a failure
Failed(r) == Done(r) /\ reqs[r].resp.status # 200

\* no request has arrived since r did
Latest(r) == \A q \in ReqIds : (q # r /\ Arrived(q)) => Before(q, r)

\* r is a request of a protected route that has failed, nothing having
\* arrived since
FailedLatest(r) ==
    /\ Failed(r)
    /\ reqs[r].op \in {"add_to_cart", "remove_from_cart", "create_order"}
    /\ Latest(r)

\* the step ends r in a failure
Fails(r) == ~Done(r) /\ Done(r)' /\ reqs'[r].resp.status # 200

\* C11: requests arriving one after the other, a request that has ended in a
\* failure (invalid or taken address at registration, product missing or
\* inactive at add, no cart at remove, token invalid or account missing at the
\* authentication gate) has left the four collections exactly as they were
\* when it arrived: the step that ends a request in a failure writes nothing,
\* and the store after a failed cart or order request is the store that the
\* request met.
C11_FailureWritesNothing ==
    /\ [](\A r \in ReqIds : FailedLatest(r) => Store = reqs[r].arg.seen)
    /\ [][\A r \in ReqIds : Fails(r) => Store' = Store]_vars

\* an add has put a line in a cart, then a registration of a taken address
\* or a request turned away at the gate has failed, and last an add of the
\* inactive product by the account of the cart has failed
C11_Witness ==
    \E a, e, f \in ReqIds :
        /\ Added(a)
        /\ Failed(e)
        /\ reqs[e].resp.detail \in {"Email already registered", "Invalid token", "User not found"}
        /\ FailedLatest(f)
        /\ reqs[f].op = "add_to_cart"
        /\ reqs[f].arg.product_id = P3
        /\ reqs[f].resp.detail = "Product not found"
        /\ \E k \in DOMAIN carts : carts[k].user_id = UserOf(f) /\ carts[k].items # <<>>


\* the line items r wrote: its line merged into the items it had read
WrittenBy(r) ==
    MergeItem(reqs[r].loc.cart.items, reqs[r].arg.product_id, reqs[r].arg.quantity,
              reqs[r].loc.price)

\* r1 and r2 are two adds of one account and of two products that have both
\* succeeded after reading the same line items, every other request having
\* ended before either arrived
RacedAdds(r1, r2) ==
    /\ r1 # r2
    /\ Added(r1)
    /\ Added(r2)
    /\ UserOf(r1) = UserOf(r2)
    /\ reqs[r1].arg.product_id # reqs[r2].arg.product_id
    /\ reqs[r1].loc.cart.items = reqs[r2].loc.cart.items
    /\ \A q \in ReqIds \ {r1, r2} : Arrived(q) => Before(q, r1) /\ Before(q, r2)

\* the line items that hold the contributions of r1 and of r2
WrittenByBoth(r1, r2) ==
    MergeItem(WrittenBy(r1), reqs[r2].arg.product_id, reqs[r2].arg.quantity,
              reqs[r2].loc.price)

\* C12: when two adds of one account for two different products have both
\* read the same prior cart and both have succeeded, the stored cart is what
\* one of them alone wrote (the prior lines and the contribution of that one)
\* and not the cart that holds both contributions: the other's is lost.
C12_LostUpdate ==
    \A r1, r2 \in ReqIds :
        RacedAdds(r1, r2) =>
            LET items == carts[FindCart(UserOf(r1))].items
            IN /\ items \in {WrittenBy(r1), WrittenBy(r2)}
               /\ items # WrittenByBoth(r1, r2)

\* two adds for two products have run at the same time on the stored, empty
\* cart of the account and both have succeeded; the cart has one line
C12_Witness ==
    \E r1, r2 \in ReqIds :
        /\ RacedAdds(r1, r2)
        /\ ~Before(r1, r2)
        /\ ~Before(r2, r1)
        /\ reqs[r1].loc.found
        /\ reqs[r2].loc.found
        /\ reqs[r1].loc.cart.items = <<>>
        /\ Len(carts[FindCart(UserOf(r1))].items) = 1


\* r1 and r2 are two registrations of one valid address that have both ended,
\* each having made its existence check before the other inserted (neither
\* had ended when the other arrived), no other request having registered
\* the address
RacedRegistrations(r1, r2) ==
    /\ r1 # r2
    /\ IsDone(r1, "register")
    /\ IsDone(r2, "register")
    /\ reqs[r1].arg.email = reqs[r2].arg.email
    /\ validate_email(reqs[r1].arg.email)
    /\ ~Before(r1, r2)
    /\ ~Before(r2, r1)
    /\ \A k \in AccountsWith(reqs[r1].arg.email) :
            users[k].id \in {Uuid("user", r1), Uuid("user", r2)}

\* C13: when two registrations of one valid address have both made the
\* existence check before either inserted, both succeed and the store holds
\* two accounts with that address, with different identifiers.
C13_DuplicateEmail ==
    \A r1, r2 \in ReqIds :
        RacedRegistrations(r1, r2) =>
            /\ reqs[r1].resp.status = 200
            /\ reqs[r2].resp.status = 200
            /\ reqs[r1].resp.user.id # reqs[r2].resp.user.id
            /\ {users[k].id : k \in AccountsWith(reqs[r1].arg.email)} =
                    {reqs[r1].resp.user.id, reqs[r2].resp.user.id}
            /\ Cardinality(AccountsWith(reqs[r1].arg.email)) = 2

\* two registrations of one address have run at the same time and have both
\* ended; the store holds two accounts with the address
C13_Witness ==
    \E r1, r2 \in ReqIds :
        /\ RacedRegistrations(r1, r2)
        /\ Cardinality(AccountsWith(reqs[r1].arg.email)) = 2


\* C14: every line item of every stored cart has a positive quantity.
C14_PositiveQuantities ==
    \A k \in DOMAIN carts : \A i \in DOMAIN carts[k].items :
        carts[k].items[i].quantity > 0

=========================================================================
